---- MODULE Spec2Model ----
(***************************************************************************)
(* Service supervision engine of service_manager.cpp: the per-service      *)
(* state machine (Service::start / stop / restart), its monitoring thread  *)
(* (startMonitoring / stopMonitoring) and the control-plane thread that    *)
(* calls into it.  The source file holds two variants of class Service     *)
(* (lines 41-404 and 837-1079); `variant' selects the build.  The class    *)
(* has no lock: every read or write of status_ is a step of its own, so    *)
(* that the interleavings of the caller with a monitor are those of the    *)
(* code.  ServiceManager::Impl adds the registry (registerService,         *)
(* unregisterService, the configuration calls) and the calls that go       *)
(* through every service (startAllServices, stopAllServices); they run on  *)
(* the control-plane thread.  Spec has the three per-service calls on a    *)
(* full registry, RegSpec the registry calls, SweepSpec startAllServices,  *)
(* CfgSpec setServiceConfig, ToggleSpec enableService / disableService,    *)
(* ReloadSpec reloadConfig, NameSpec the calls that write a configuration, *)
(* ProbeSpec isServiceRunning, and MgrSpec the calls of the manager        *)
(* together.                                                               *)
(***************************************************************************)
EXTENDS Integers, FiniteSets, Sequences, TLC

\* ---------------------------------------------------------------- bounds
MaxPid == 3            \* processes the OS lets the supervisor fork
MaxAttemptsCfg == 2    \* largest configured max_restart_attempts
MaxCalls == 2          \* calls the control plane makes

\* ------------------------------------------------------- program constants
NoPid == -1            \* pid sentinel of ServiceStatus
StopPolls == 10        \* polls of the graceful wait loop (variant B)

Services == {"network", "storage"}

Dependencies == [s \in Services |-> IF s = "storage" THEN {"network"} ELSE {}]

ServiceState == {"Stopped", "Starting", "Running", "Stopping", "Failed", "Unknown"}

Variants == {"A", "B"}

\* enum class ServicePriority
ServicePriority == [Critical |-> 0, High |-> 1, Normal |-> 2, Low |-> 3, Idle |-> 4]

\* the priorities createDefaultServices gives its services
DefaultPriority == [s \in Services |-> IF s = "network" THEN ServicePriority.Critical
                                       ELSE ServicePriority.High]

\* the executables createDefaultServices gives its services
DefaultExecutable == [s \in Services |-> IF s = "network" THEN "/usr/sbin/networkd"
                                         ELSE "/usr/sbin/storaged"]

Pids == 1..MaxPid

Caller == "caller"

\* one control-plane thread, and the monitoring thread of each service
\* (named after its service)
Threads == {Caller} \cup Services

VARIABLES
    variant,      \* which of the two Service implementations is built
    maxAttempts,  \* config_.max_restart_attempts of each service
    state,        \* status_.state
    pid,          \* status_.pid
    rc,           \* status_.restart_count
    lastError,    \* status_.last_error
    monFlag,      \* monitoring_thread_running_
    proc,         \* OS process table: unborn / alive / zombie / gone
    owner,        \* the service whose start() forked the process
    spawner,      \* the thread that forked it: caller or monitor
    pc,           \* position of each thread
    lpid,         \* local `pid' of a thread inside start()
    tmp,          \* value read by restart_count++ before it is written back
    cop,          \* operation the caller runs (or ran last)
    csvc,         \* service the caller's operation is on
    cret,         \* its return value
    cseen,        \* status_.state as read by the entry check of the caller's start()
    calls,        \* number of calls made so far
    cpoll,        \* loop counter i of the graceful wait loop
    errCalls,     \* invocations of the error callback, per service
    statusCalls,  \* invocations of the status-change callback, per service
    crashed,      \* std::terminate was called
    autoStart,    \* config_.auto_start of each service
    priority,     \* config_.priority of each service
    registered,   \* the names in services_
    queue,        \* names startAllServices / stopAllServices has yet to visit
    allOk,        \* all_started / all_stopped
    issued,       \* the start() / stop() calls of the running *AllServices, in
                  \* order, each with the value it returned
    got,          \* the ServiceStatus the last getServiceStatus returned
    tempThread,   \* a std::thread constructed while monitoring_thread_ was joinable
    forkFails,    \* failed fork() calls, per service
    execPath,     \* config_.executable_path of each service
    cfgName,      \* config_.name of each service
    image,        \* the executable each process was spawned to run
    carg          \* the ServiceConfig the last registerService /
                  \* setServiceConfig was given

vars == <<variant, maxAttempts, state, pid, rc, lastError, monFlag, proc,
          owner, spawner, pc, lpid, tmp, cop, csvc, cret, cpoll, errCalls,
          statusCalls, crashed, cseen, calls, autoStart, priority,
          registered, queue, allOk, issued, got, tempThread,
          forkFails, execPath, cfgName, image, carg>>

cfgVars == <<variant, maxAttempts, autoStart, priority, execPath, cfgName>>
regVars == <<registered, queue, allOk, issued, got, carg>>
statusVars == <<state, pid, rc, lastError>>
osVars == <<proc, owner, spawner, image>>
callVars == <<cop, csvc, calls>>
cbVars == <<errCalls, statusCalls>>

\* the service a thread works on
Target(t) == IF t = Caller THEN csvc ELSE t

\* ------------------------------------------------------------ OS process
\* kill(p, sig) returns 0 when the pid names a process or a zombie;
\* kill(-1, sig) addresses every process and returns 0
KillOk(p) == IF p = NoPid THEN TRUE ELSE proc[p] \in {"alive", "zombie"}

Unborn == {p \in Pids : proc[p] = "unborn"}

NextPid == CHOOSE p \in Unborn : \A q \in Unborn : p <= q

\* a process may exit at any moment; it stays a zombie until it is waited
\* for, unless the host reaps children itself
ProcExit(p) ==
    /\ ~crashed
    /\ proc[p] = "alive"
    /\ \E st \in {"zombie", "gone"} : proc' = [proc EXCEPT ![p] = st]
    /\ UNCHANGED <<cfgVars, regVars, tempThread, forkFails,
                   statusVars, monFlag, owner, spawner, image, pc, lpid,
                   tmp, callVars, cret, cpoll, cbVars, crashed,
                   cseen>>

\* waitpid reaps a zombie
Reaped(p) == IF p \in Pids /\ proc[p] = "zombie"
             THEN [proc EXCEPT ![p] = "gone"] ELSE proc

\* ----------------------------------------------------------- Service::start
checkDependencies(s) == TRUE

\* a bool return value as the caller records it
Result(v) == IF v THEN "true" ELSE "false"

\* start() returns v in thread t: the caller goes back to idle, a monitor
\* leaves its loop (break) and the thread ends
StartReturn(t, v) ==
    /\ pc' = [pc EXCEPT ![t] = IF t # Caller THEN "fin"
                               ELSE IF cop = "startAll" THEN "sa_next"
                               ELSE "idle"]
    /\ cret' = IF t = Caller THEN Result(v) ELSE cret

\* a start() whose entry check forgets the Starting state
AlreadyUpRunningOnly(st) == st = "Running"

\* if (state == Running || state == Starting) return true
AlreadyUp(st) == st \in {"Running", "Starting"}

StartCheck(t) ==
    /\ ~crashed
    /\ pc[t] = "st_check"
    /\ IF AlreadyUp(state[Target(t)])
       THEN StartReturn(t, TRUE)
       ELSE pc' = [pc EXCEPT ![t] = "st_begin"] /\ UNCHANGED cret
    /\ cseen' = IF t = Caller THEN state[Target(t)] ELSE cseen
    /\ UNCHANGED <<cfgVars, regVars, tempThread, forkFails,
                   statusVars, monFlag, osVars, lpid, tmp,
                   callVars, cpoll, cbVars, crashed>>

StartBegin(t) ==
    LET s == Target(t) IN
    /\ ~crashed
    /\ pc[t] = "st_begin"
    /\ IF checkDependencies(s)
       THEN /\ state' = [state EXCEPT ![s] = "Starting"]
            /\ lastError' = [lastError EXCEPT ![s] = ""]
            /\ pc' = [pc EXCEPT ![t] = "st_fork"]
            /\ UNCHANGED cret
       ELSE /\ state' = [state EXCEPT ![s] = "Failed"]
            /\ lastError' = [lastError EXCEPT ![s] = "deps"]
            /\ StartReturn(t, FALSE)
    /\ UNCHANGED <<cfgVars, regVars, tempThread, forkFails,
                   pid, rc, monFlag, osVars, lpid, tmp, callVars,
                   cpoll, cbVars, crashed,
                   cseen>>

\* fork() == -1
StartForkFail(t) ==
    LET s == Target(t) IN
    /\ ~crashed
    /\ pc[t] = "st_fork"
    /\ state' = [state EXCEPT ![s] = "Failed"]
    /\ lastError' = [lastError EXCEPT ![s] = "fork"]
    /\ forkFails' = [forkFails EXCEPT ![s] = @ + 1]
    /\ StartReturn(t, FALSE)
    /\ UNCHANGED <<cfgVars, regVars, tempThread,
                   pid, rc, monFlag, osVars, lpid, tmp, callVars,
                   cpoll, cbVars, crashed,
                   cseen>>

\* fork() returns the child's pid to the parent
StartForkOk(t) ==
    LET s == Target(t) IN
    /\ ~crashed
    /\ pc[t] = "st_fork"
    /\ Unborn # {}
    /\ proc' = [proc EXCEPT ![NextPid] = "alive"]
    /\ owner' = [owner EXCEPT ![NextPid] = s]
    /\ image' = [image EXCEPT ![NextPid] = execPath[s]]
    /\ spawner' = [spawner EXCEPT ![NextPid] =
                       IF t = Caller THEN "caller" ELSE "monitor"]
    /\ pid' = [pid EXCEPT ![s] = NextPid]
    /\ lpid' = [lpid EXCEPT ![t] = NextPid]
    /\ pc' = [pc EXCEPT ![t] = "st_rcread"]
    /\ UNCHANGED <<cfgVars, regVars, tempThread, forkFails,
                   state, rc, lastError, monFlag, tmp, callVars,
                   cret, cpoll, cbVars, crashed,
                   cseen>>

\* status_.restart_count++ is a read and a write of an unprotected field
StartCountRead(t) ==
    /\ ~crashed
    /\ pc[t] = "st_rcread"
    /\ tmp' = [tmp EXCEPT ![t] = rc[Target(t)]]
    /\ pc' = [pc EXCEPT ![t] = "st_rcwrite"]
    /\ UNCHANGED <<cfgVars, regVars, tempThread, forkFails,
                   statusVars, monFlag, osVars, lpid, callVars,
                   cret, cpoll, cbVars, crashed,
                   cseen>>

StartCountWrite(t) ==
    /\ ~crashed
    /\ pc[t] = "st_rcwrite"
    /\ rc' = [rc EXCEPT ![Target(t)] = tmp[t] + 1]
    /\ tmp' = [tmp EXCEPT ![t] = 0]
    /\ pc' = [pc EXCEPT ![t] = "st_live"]
    /\ UNCHANGED <<cfgVars, regVars, tempThread, forkFails,
                   state, pid, lastError, monFlag, osVars, lpid,
                   callVars, cret, cpoll, cbVars, crashed,
                   cseen>>

\* the pid the liveness check after the 100ms wait signals: variant A reads
\* status_.pid again, variant B uses its local
LivenessPid(t) == IF variant = "A" THEN pid[Target(t)] ELSE lpid[t]

StartLiveness(t) ==
    LET s == Target(t) IN
    /\ ~crashed
    /\ pc[t] = "st_live"
    /\ lpid' = [lpid EXCEPT ![t] = NoPid]
    /\ IF KillOk(LivenessPid(t))
       THEN /\ state' = [state EXCEPT ![s] = "Running"]
            /\ pc' = [pc EXCEPT ![t] = "st_mon"]
            /\ UNCHANGED <<lastError, cret>>
       ELSE /\ state' = [state EXCEPT ![s] = "Failed"]
            /\ lastError' = [lastError EXCEPT ![s] = "exited"]
            /\ StartReturn(t, FALSE)
    /\ UNCHANGED <<cfgVars, regVars, tempThread, forkFails,
                   pid, rc, monFlag, osVars, tmp, callVars, cpoll,
                   cbVars, crashed,
                   cseen>>

\* std::thread::joinable of monitoring_thread_
Joinable(s) == pc[s] # "none"

\* startMonitoring(), then return true
StartMonitoring(t) ==
    LET s == Target(t) IN
    /\ ~crashed
    /\ pc[t] = "st_mon"
    /\ IF monFlag[s]
       THEN StartReturn(t, TRUE) /\ UNCHANGED <<monFlag, crashed, tempThread>>
       ELSE /\ monFlag' = [monFlag EXCEPT ![s] = TRUE]
            /\ IF Joinable(s)
               THEN \* std::thread(...) starts a thread; its move-assignment
                    \* to a joinable monitoring_thread_ calls std::terminate
                    /\ tempThread' = [tempThread EXCEPT ![s] = TRUE]
                    /\ crashed' = TRUE
                    /\ UNCHANGED <<pc, cret>>
               ELSE /\ pc' = [pc EXCEPT ![t] = IF cop = "startAll"
                                                THEN "sa_next" ELSE "idle",
                                       ![s] = "m_loop"]
                    /\ cret' = Result(TRUE)
                    /\ UNCHANGED <<crashed, tempThread>>
    /\ UNCHANGED <<cfgVars, regVars, forkFails,
                   statusVars, osVars, lpid, tmp, callVars, cpoll,
                   cbVars,
                   cseen>>

StartStep(t) ==
    \/ StartCheck(t)
    \/ StartBegin(t)
    \/ StartForkFail(t)
    \/ StartForkOk(t)
    \/ StartCountRead(t)
    \/ StartCountWrite(t)
    \/ StartLiveness(t)
    \/ StartMonitoring(t)


\* ------------------------------------------------------------ Service::stop
\* a restart() that goes on to start() whatever stop() returned
AfterStopAlways(v) ==
    IF cop = "restart" THEN "st_check"
    ELSE IF cop = "stopAll" THEN "so_next"
    ELSE IF cop = "unregister" THEN "dt_monflag"
    ELSE IF cop = "~Service" THEN "un_erase"
    ELSE "idle"

\* where the caller goes on when its stop() has returned v: inside restart()
\* a successful stop() is followed, after the restart delay, by start();
\* stopAllServices takes the next service; unregisterService erases the
\* record, which runs ~Service
AfterStop(v) ==
    IF cop = "restart" /\ v THEN "st_check"
    ELSE IF cop = "stopAll" THEN "so_next"
    ELSE IF cop = "unregister" THEN "dt_monflag"
    ELSE IF cop = "~Service" THEN "un_erase"
    ELSE "idle"

\* stop() returns v
StopReturn(v) ==
    /\ cpoll' = 0
    /\ pc' = [pc EXCEPT ![Caller] = AfterStop(v)]
    /\ IF cop = "restart" /\ v
       THEN UNCHANGED cret
       ELSE cret' = Result(v)

StopCheck ==
    /\ ~crashed
    /\ pc[Caller] = "sp_check"
    /\ IF state[csvc] \in {"Stopped", "Stopping"}
       THEN StopReturn(TRUE)
       ELSE pc' = [pc EXCEPT ![Caller] = "sp_pid"] /\ UNCHANGED <<cret, cpoll>>
    /\ UNCHANGED <<cfgVars, regVars, tempThread, forkFails,
                   statusVars, monFlag, osVars, lpid, tmp,
                   callVars, cbVars, crashed,
                   cseen>>

\* a stop() that does not test status_.pid against -1
StopNoPidUntested ==
    /\ ~crashed
    /\ pc[Caller] = "sp_pid"
    /\ state' = [state EXCEPT ![csvc] = "Stopping"]
    /\ pc' = [pc EXCEPT ![Caller] = "sp_term"]
    /\ UNCHANGED <<cret, cpoll>>
    /\ UNCHANGED <<cfgVars, regVars, tempThread, forkFails,
                   pid, rc, lastError, monFlag, osVars, lpid, tmp,
                   callVars, cbVars, crashed,
                   cseen>>

StopNoPid ==
    /\ ~crashed
    /\ pc[Caller] = "sp_pid"
    /\ IF pid[csvc] = NoPid
       THEN /\ state' = [state EXCEPT ![csvc] = "Stopped"]
            /\ StopReturn(TRUE)
       ELSE /\ state' = [state EXCEPT ![csvc] = "Stopping"]
            /\ pc' = [pc EXCEPT ![Caller] = "sp_term"]
            /\ UNCHANGED <<cret, cpoll>>
    /\ UNCHANGED <<cfgVars, regVars, tempThread, forkFails,
                   pid, rc, lastError, monFlag, osVars, lpid, tmp,
                   callVars, cbVars, crashed,
                   cseen>>

\* a failure branch of variant A: Failed, return false
StopFail(msg) ==
    /\ state' = [state EXCEPT ![csvc] = "Failed"]
    /\ lastError' = [lastError EXCEPT ![csvc] = msg]
    /\ StopReturn(FALSE)

\* kill(status_.pid, SIGTERM)
StopTerm ==
    /\ ~crashed
    /\ pc[Caller] = "sp_term"
    /\ IF KillOk(pid[csvc])
       THEN /\ pc' = [pc EXCEPT ![Caller] =
                          IF variant = "A" THEN "sp_wait" ELSE "sp_poll"]
            /\ UNCHANGED <<state, lastError, cret, cpoll>>
       ELSE IF variant = "A"
            THEN StopFail("term")
            ELSE /\ pc' = [pc EXCEPT ![Caller] = "sp_fin"]
                 /\ UNCHANGED <<state, lastError, cret, cpoll>>
    /\ UNCHANGED <<cfgVars, regVars, tempThread, forkFails,
                   pid, rc, monFlag, osVars, lpid, tmp, callVars,
                   cbVars, crashed,
                   cseen>>

\* result of waitpid(p, WNOHANG): the pid of a reaped zombie, 0 for a
\* running child, -1 when there is no such child
WaitNoHang(p) == IF p \in Pids /\ proc[p] = "zombie" THEN p
                 ELSE IF p \in Pids /\ proc[p] = "alive" THEN 0
                 ELSE -1

\* variant A: one waitpid(WNOHANG)
StopWait ==
    LET r == WaitNoHang(pid[csvc]) IN
    /\ ~crashed
    /\ pc[Caller] = "sp_wait"
    /\ proc' = Reaped(pid[csvc])
    /\ IF r = -1
       THEN StopFail("wait")
       ELSE /\ pc' = [pc EXCEPT ![Caller] =
                          IF r = 0 THEN "sp_kill" ELSE "sp_fin"]
            /\ UNCHANGED <<state, lastError, cret, cpoll>>
    /\ UNCHANGED <<cfgVars, regVars, tempThread, forkFails,
                   pid, rc, monFlag, owner, spawner, image, lpid, tmp,
                   callVars, cbVars, crashed,
                   cseen>>

\* variant B: up to StopPolls polls, 500ms apart
StopPoll ==
    LET r == WaitNoHang(pid[csvc]) IN
    /\ ~crashed
    /\ pc[Caller] = "sp_poll"
    /\ IF cpoll < StopPolls
       THEN /\ proc' = Reaped(pid[csvc])
            /\ IF r = pid[csvc]
               THEN pc' = [pc EXCEPT ![Caller] = "sp_fin"] /\ cpoll' = 0
               ELSE IF r = 0
                    THEN cpoll' = cpoll + 1 /\ UNCHANGED pc
                    ELSE pc' = [pc EXCEPT ![Caller] = "sp_kill"] /\ cpoll' = 0
       ELSE /\ pc' = [pc EXCEPT ![Caller] = "sp_kill"]
            /\ cpoll' = 0
            /\ UNCHANGED proc
    /\ UNCHANGED <<cfgVars, regVars, tempThread, forkFails,
                   statusVars, monFlag, owner, spawner, image, lpid, tmp,
                   callVars, cret, cbVars, crashed,
                   cseen>>

\* kill(status_.pid, SIGKILL): a running process dies
StopKill ==
    LET p == pid[csvc] IN
    /\ ~crashed
    /\ pc[Caller] = "sp_kill"
    /\ IF KillOk(p)
       THEN /\ IF p \in Pids /\ proc[p] = "alive"
               THEN \E st \in {"zombie", "gone"} :
                        proc' = [proc EXCEPT ![p] = st]
               ELSE UNCHANGED proc
            /\ pc' = [pc EXCEPT ![Caller] = "sp_wait2"]
            /\ UNCHANGED <<state, lastError, cret, cpoll>>
       ELSE /\ UNCHANGED proc
            /\ IF variant = "A"
               THEN StopFail("kill")
               ELSE /\ pc' = [pc EXCEPT ![Caller] = "sp_wait2"]
                    /\ UNCHANGED <<state, lastError, cret, cpoll>>
    /\ UNCHANGED <<cfgVars, regVars, tempThread, forkFails,
                   pid, rc, monFlag, owner, spawner, image, lpid, tmp,
                   callVars, cbVars, crashed,
                   cseen>>

\* waitpid(status_.pid, ..., 0) blocks while the child runs
StopWaitExit ==
    /\ ~crashed
    /\ pc[Caller] = "sp_wait2"
    /\ ~(pid[csvc] \in Pids /\ proc[pid[csvc]] = "alive")
    /\ proc' = Reaped(pid[csvc])
    /\ pc' = [pc EXCEPT ![Caller] = "sp_fin"]
    /\ UNCHANGED <<cfgVars, regVars, tempThread, forkFails,
                   statusVars, monFlag, owner, spawner, image, lpid, tmp,
                   callVars, cret, cpoll, cbVars, crashed,
                   cseen>>

\* state = Stopped, pid = -1
StopFinish ==
    /\ ~crashed
    /\ pc[Caller] = "sp_fin"
    /\ state' = [state EXCEPT ![csvc] = "Stopped"]
    /\ pid' = [pid EXCEPT ![csvc] = NoPid]
    /\ pc' = [pc EXCEPT ![Caller] = "sp_monflag"]
    /\ UNCHANGED <<cfgVars, regVars, tempThread, forkFails,
                   rc, lastError, monFlag, osVars, lpid, tmp,
                   callVars, cret, cpoll, cbVars, crashed,
                   cseen>>

\* stopMonitoring(): clear the flag ...
StopMonitoringFlag ==
    /\ ~crashed
    /\ pc[Caller] = "sp_monflag"
    /\ monFlag' = [monFlag EXCEPT ![csvc] = FALSE]
    /\ pc' = [pc EXCEPT ![Caller] = "sp_join"]
    /\ UNCHANGED <<cfgVars, regVars, tempThread, forkFails,
                   statusVars, osVars, lpid, tmp, callVars, cret,
                   cpoll, cbVars, crashed,
                   cseen>>

\* ... and join the thread if it is joinable; then return true
StopMonitoringJoin ==
    /\ ~crashed
    /\ pc[Caller] = "sp_join"
    /\ pc[csvc] \in {"none", "fin"}
    /\ pc' = [pc EXCEPT ![Caller] = AfterStop(TRUE), ![csvc] = "none"]
    /\ IF cop = "restart"
       THEN UNCHANGED cret
       ELSE cret' = Result(TRUE)
    /\ UNCHANGED <<cfgVars, regVars, tempThread, forkFails,
                   statusVars, monFlag, osVars, lpid, tmp,
                   callVars, cpoll, cbVars, crashed,
                   cseen>>

StopStep ==
    \/ StopCheck
    \/ StopNoPid
    \/ StopTerm
    \/ StopWait
    \/ StopPoll
    \/ StopKill
    \/ StopWaitExit
    \/ StopFinish
    \/ StopMonitoringFlag
    \/ StopMonitoringJoin

\* ------------------------------------------------- the monitoring thread
\* while (monitoring_thread_running_)
MonitorLoop(s) ==
    /\ ~crashed
    /\ pc[s] = "m_loop"
    /\ pc' = [pc EXCEPT ![s] = IF monFlag[s] THEN "m_pid" ELSE "fin"]
    /\ UNCHANGED <<cfgVars, regVars, tempThread, forkFails,
                   statusVars, monFlag, osVars, lpid, tmp,
                   callVars, cret, cpoll, cbVars, crashed,
                   cseen>>

\* if (status_.pid != -1), else sleep and loop
MonitorPid(s) ==
    /\ ~crashed
    /\ pc[s] = "m_pid"
    /\ pc' = [pc EXCEPT ![s] = IF pid[s] # NoPid THEN "m_kill" ELSE "m_loop"]
    /\ UNCHANGED <<cfgVars, regVars, tempThread, forkFails,
                   statusVars, monFlag, osVars, lpid, tmp,
                   callVars, cret, cpoll, cbVars, crashed,
                   cseen>>

\* kill(status_.pid, 0) == 0: refresh the samples, sleep and loop
MonitorPoll(s) ==
    /\ ~crashed
    /\ pc[s] = "m_kill"
    /\ pc' = [pc EXCEPT ![s] = IF KillOk(pid[s]) THEN "m_loop" ELSE "m_fail"]
    /\ UNCHANGED <<cfgVars, regVars, tempThread, forkFails,
                   statusVars, monFlag, osVars, lpid, tmp,
                   callVars, cret, cpoll, cbVars, crashed,
                   cseen>>

\* an unexpected-exit branch that does not invoke error_callback_
MonitorFailSilent(s) ==
    /\ ~crashed
    /\ pc[s] = "m_fail"
    /\ state' = [state EXCEPT ![s] = "Failed"]
    /\ lastError' = [lastError EXCEPT ![s] = "unexpected"]
    /\ pc' = [pc EXCEPT ![s] = "m_rc"]
    /\ UNCHANGED <<cfgVars, regVars, tempThread, forkFails,
                   pid, rc, monFlag, osVars, lpid, tmp, callVars,
                   cret, cpoll, cbVars, crashed,
                   cseen>>

\* the process has exited: Failed, last error, error callback
MonitorFail(s) ==
    /\ ~crashed
    /\ pc[s] = "m_fail"
    /\ state' = [state EXCEPT ![s] = "Failed"]
    /\ lastError' = [lastError EXCEPT ![s] = "unexpected"]
    /\ errCalls' = [errCalls EXCEPT ![s] = @ + 1]
    /\ pc' = [pc EXCEPT ![s] = "m_rc"]
    /\ UNCHANGED <<cfgVars, regVars, tempThread, forkFails,
                   pid, rc, monFlag, osVars, lpid, tmp, callVars,
                   cret, cpoll, statusCalls, crashed,
                   cseen>>

RestartAllowed(count, max) == count < max

\* if (restart_count < max_restart_attempts) { sleep; start(); } break;
MonitorRestart(s) ==
    /\ ~crashed
    /\ pc[s] = "m_rc"
    /\ pc' = [pc EXCEPT ![s] = IF RestartAllowed(rc[s], maxAttempts[s])
                               THEN "st_check" ELSE "fin"]
    /\ UNCHANGED <<cfgVars, regVars, tempThread, forkFails,
                   statusVars, monFlag, osVars, lpid, tmp,
                   callVars, cret, cpoll, cbVars, crashed,
                   cseen>>

MonitorStep(s) ==
    \/ MonitorLoop(s)
    \/ MonitorPid(s)
    \/ MonitorPoll(s)
    \/ MonitorFail(s)
    \/ MonitorRestart(s)
    \/ StartStep(s)

\* ------------------------------------------------- the control-plane calls
\* ServiceManager::startService / stopService / restartService on a
\* registered name
Call(op, s) ==
    /\ ~crashed
    /\ pc[Caller] = "idle"
    /\ s \in registered
    /\ cop' = op
    /\ csvc' = s
    /\ cret' = "none"
    /\ cseen' = "none"
    /\ calls < MaxCalls
    /\ calls' = calls + 1
    /\ pc' = [pc EXCEPT ![Caller] = IF op = "start" THEN "st_check"
                                    ELSE "sp_check"]
    /\ UNCHANGED <<cfgVars, regVars, tempThread, forkFails,
                   statusVars, monFlag, osVars, lpid, tmp, cpoll,
                   cbVars, crashed>>

startService(s) == Call("start", s)

stopService(s) == Call("stop", s)

restartService(s) == Call("restart", s)

CallerStep == StartStep(Caller) \/ StopStep

\* ------------------------------------------------------- the service registry
\* the ServiceConfig values the control plane passes in
Configs == {[priority |-> ServicePriority.Critical, auto_start |-> FALSE,
             max_restart_attempts |-> MaxAttemptsCfg,
             executable_path |-> "/usr/bin/desktop"],
            [priority |-> ServicePriority.Normal, auto_start |-> TRUE,
             max_restart_attempts |-> 0,
             executable_path |-> "/usr/sbin/storaged"]}

\* the configuration c with n as its name field
Named(c, n) ==
    [priority |-> c.priority, auto_start |-> c.auto_start,
     max_restart_attempts |-> c.max_restart_attempts,
     executable_path |-> c.executable_path, name |-> n]

\* a constructor that leaves the state at the enum's Unknown
ConstructedUnknown == "Unknown"

\* the state Service::Service gives a new record
Constructed == "Stopped"

\* what getServiceStatus returns for a name that is not in services_
Placeholder == [state |-> "Unknown", pid |-> NoPid, rc |-> 0]

\* saveConfig() returns false when its file cannot be opened
SaveResults == BOOLEAN

\* a call that reads or edits the registry and returns at once
RegistryCall(op, s) ==
    /\ ~crashed
    /\ pc[Caller] = "idle"
    /\ calls < MaxCalls
    /\ calls' = calls + 1
    /\ cop' = op
    /\ csvc' = s
    /\ cseen' = "none"
    /\ UNCHANGED <<variant, osVars, pc, lpid, tmp, cpoll, cbVars, crashed,
                   queue, allOk, issued, tempThread, forkFails>>

\* a lookup that inserts a default record for a missing name, as
\* services_[name] would
NotRegisteredInserting(op, s) ==
    /\ s \notin registered
    /\ RegistryCall(op, s)
    /\ cret' = Result(FALSE)
    /\ registered' = registered \cup {s}
    /\ UNCHANGED <<statusVars, monFlag, maxAttempts, autoStart, priority,
                   execPath, cfgName, got, carg>>

\* the mutating calls on a name that is not in services_ return false
NotRegistered(op, s) ==
    /\ s \notin registered
    /\ RegistryCall(op, s)
    /\ cret' = Result(FALSE)
    /\ UNCHANGED <<statusVars, monFlag, maxAttempts, autoStart, priority,
                   execPath, cfgName, registered, got, carg>>

getServiceStatus(s) ==
    /\ RegistryCall("getStatus", s)
    /\ got' = IF s \in registered
              THEN [state |-> state[s], pid |-> pid[s], rc |-> rc[s]]
              ELSE Placeholder
    /\ cret' = "none"
    /\ UNCHANGED <<statusVars, monFlag, maxAttempts, autoStart, priority,
                   execPath, cfgName, registered, carg>>

\* an isServiceRunning that counts Running only
isServiceRunningOnly(s) ==
    /\ RegistryCall("isRunning", s)
    /\ cret' = Result(s \in registered /\ state[s] = "Running")
    /\ UNCHANGED <<statusVars, monFlag, maxAttempts, autoStart, priority,
                   execPath, cfgName, registered, got, carg>>

\* isServiceRunning(name): false for a name that is not in services_,
\* otherwise whether getState() is Running or Starting
isServiceRunning(s) ==
    /\ RegistryCall("isRunning", s)
    /\ cret' = IF s \notin registered
               THEN Result(FALSE)
               ELSE Result(state[s] = "Running" \/ state[s] = "Starting")
    /\ UNCHANGED <<statusVars, monFlag, maxAttempts, autoStart, priority,
                   execPath, cfgName, registered, got, carg>>

\* a setConfig that leaves the executable path as it was
setConfigKeepingPath(s, c) ==
    /\ maxAttempts' = [maxAttempts EXCEPT ![s] = c.max_restart_attempts]
    /\ autoStart' = [autoStart EXCEPT ![s] = c.auto_start]
    /\ priority' = [priority EXCEPT ![s] = c.priority]
    /\ execPath' = execPath
    /\ cfgName' = [cfgName EXCEPT ![s] = c.name]

\* Service::setConfig
setConfig(s, c) ==
    /\ maxAttempts' = [maxAttempts EXCEPT ![s] = c.max_restart_attempts]
    /\ autoStart' = [autoStart EXCEPT ![s] = c.auto_start]
    /\ priority' = [priority EXCEPT ![s] = c.priority]
    /\ execPath' = [execPath EXCEPT ![s] = c.executable_path]
    /\ cfgName' = [cfgName EXCEPT ![s] = c.name]

\* a registerService whose duplicate test always passes
registerServiceOverwriting(s, c) ==
    /\ RegistryCall("register", s)
    /\ registered' = registered \cup {s}
    /\ setConfig(s, c)
    /\ state' = [state EXCEPT ![s] = "Stopped"]
    /\ pid' = [pid EXCEPT ![s] = NoPid]
    /\ rc' = [rc EXCEPT ![s] = 0]
    /\ lastError' = [lastError EXCEPT ![s] = ""]
    /\ monFlag' = [monFlag EXCEPT ![s] = FALSE]
    /\ \E saved \in SaveResults : cret' = Result(saved)
    /\ carg' = c
    /\ UNCHANGED got

\* registerService(config) with config.name = s: a duplicate name returns
\* false; otherwise a Service is constructed and inserted, and the result is
\* that of saveConfig()
registerService(s, c) ==
    /\ RegistryCall("register", s)
    /\ IF s \in registered
       THEN /\ cret' = Result(FALSE)
            /\ UNCHANGED <<statusVars, monFlag, maxAttempts, autoStart,
                           priority, execPath, cfgName, registered>>
       ELSE /\ registered' = registered \cup {s}
            /\ setConfig(s, c)
            /\ state' = [state EXCEPT ![s] = Constructed]
            /\ pid' = [pid EXCEPT ![s] = NoPid]
            /\ rc' = [rc EXCEPT ![s] = 0]
            /\ lastError' = [lastError EXCEPT ![s] = ""]
            /\ monFlag' = [monFlag EXCEPT ![s] = FALSE]
            /\ \E saved \in SaveResults : cret' = Result(saved)
    /\ carg' = c
    /\ UNCHANGED got

\* setServiceConfig / enableService / disableService on a registered name
setServiceConfig(s, c) ==
    /\ s \in registered
    /\ RegistryCall("setConfig", s)
    /\ setConfig(s, c)
    /\ \E saved \in SaveResults : cret' = Result(saved)
    /\ carg' = c
    /\ UNCHANGED <<statusVars, monFlag, registered, got>>

\* an enableService that builds its configuration from ServiceConfig{}
\* instead of the stored one
enableServiceFromDefault(s) ==
    /\ s \in registered
    /\ RegistryCall("enable", s)
    /\ autoStart' = [autoStart EXCEPT ![s] = TRUE]
    /\ maxAttempts' = [maxAttempts EXCEPT ![s] = 0]
    /\ \E saved \in SaveResults : cret' = Result(saved)
    /\ UNCHANGED <<statusVars, monFlag, priority, execPath, cfgName,
                   registered, got, carg>>

enableService(s) ==
    /\ s \in registered
    /\ RegistryCall("enable", s)
    /\ autoStart' = [autoStart EXCEPT ![s] = TRUE]
    /\ \E saved \in SaveResults : cret' = Result(saved)
    /\ UNCHANGED <<statusVars, monFlag, maxAttempts, priority,
                   execPath, cfgName,
                   registered, got, carg>>

disableService(s) ==
    /\ s \in registered
    /\ RegistryCall("disable", s)
    /\ autoStart' = [autoStart EXCEPT ![s] = FALSE]
    /\ \E saved \in SaveResults : cret' = Result(saved)
    /\ UNCHANGED <<statusVars, monFlag, maxAttempts, priority,
                   execPath, cfgName,
                   registered, got, carg>>

\* the services createDefaultServices registers, in its order (those the
\* model has)
DefaultNames == <<"network", "storage">>

\* the configuration createDefaultServices gives the service n
DefaultConfig(n) ==
    [priority |-> DefaultPriority[n], auto_start |-> TRUE,
     max_restart_attempts |-> 3, executable_path |-> DefaultExecutable[n],
     name |-> n]

\* the record of s after createDefaultServices has registered the names in
\* added: a new Service for those, the old one for the others
Reloaded(added, old, new) == [s \in Services |-> IF s \in added THEN new[s] ELSE old[s]]

\* a reload whose registerService replaces the records that exist
reloadConfigOverwriting ==
    /\ RegistryCall("reload", csvc)
    /\ LET added == {DefaultNames[i] : i \in DOMAIN DefaultNames} IN
       /\ registered' = registered \cup added
       /\ state' = Reloaded(added, state, [s \in Services |-> Constructed])
       /\ pid' = Reloaded(added, pid, [s \in Services |-> NoPid])
       /\ rc' = Reloaded(added, rc, [s \in Services |-> 0])
       /\ lastError' = Reloaded(added, lastError, [s \in Services |-> ""])
       /\ monFlag' = Reloaded(added, monFlag, [s \in Services |-> FALSE])
       /\ maxAttempts' = Reloaded(added, maxAttempts,
                                  [s \in Services |-> DefaultConfig(s).max_restart_attempts])
       /\ autoStart' = Reloaded(added, autoStart, [s \in Services |-> TRUE])
       /\ priority' = Reloaded(added, priority, DefaultPriority)
       /\ execPath' = Reloaded(added, execPath, DefaultExecutable)
       /\ cfgName' = Reloaded(added, cfgName, [s \in Services |-> s])
       /\ carg' = DefaultConfig(DefaultNames[Len(DefaultNames)])
       /\ \E saved \in SaveResults : cret' = Result(saved)
    /\ UNCHANGED got

\* reloadConfig = loadConfig, which always ends in createDefaultServices: it
\* calls registerService for the default services in order and returns false
\* at the first that returns false (the name exists, or saveConfig failed);
\* k is the number of services it has inserted by then
reloadConfig ==
    /\ RegistryCall("reload", csvc)
    /\ \E k \in 0..Len(DefaultNames), saved \in SaveResults :
          LET added == {DefaultNames[i] : i \in 1..k}
              last == IF k < Len(DefaultNames) THEN k + 1 ELSE k
          IN
          /\ added \cap registered = {}
          /\ IF k = Len(DefaultNames)
             THEN cret' = Result(saved)
             ELSE /\ DefaultNames[k + 1] \in registered \/ k >= 1
                  /\ cret' = Result(FALSE)
          /\ registered' = registered \cup added
          /\ state' = Reloaded(added, state, [s \in Services |-> Constructed])
          /\ pid' = Reloaded(added, pid, [s \in Services |-> NoPid])
          /\ rc' = Reloaded(added, rc, [s \in Services |-> 0])
          /\ lastError' = Reloaded(added, lastError, [s \in Services |-> ""])
          /\ monFlag' = Reloaded(added, monFlag, [s \in Services |-> FALSE])
          /\ maxAttempts' = Reloaded(added, maxAttempts,
                                     [s \in Services |-> DefaultConfig(s).max_restart_attempts])
          /\ autoStart' = Reloaded(added, autoStart, [s \in Services |-> TRUE])
          /\ priority' = Reloaded(added, priority, DefaultPriority)
          /\ execPath' = Reloaded(added, execPath, DefaultExecutable)
          /\ cfgName' = Reloaded(added, cfgName, [s \in Services |-> s])
          /\ carg' = DefaultConfig(DefaultNames[last])
    /\ UNCHANGED got

\* unregisterService on a registered name begins with stop()
unregisterService(s) == Call("unregister", s)

\* services_.erase(it) runs ~Service: stopMonitoring() ...
DtorStopMonitoringFlag ==
    /\ ~crashed
    /\ pc[Caller] = "dt_monflag"
    /\ monFlag' = [monFlag EXCEPT ![csvc] = FALSE]
    /\ pc' = [pc EXCEPT ![Caller] = "dt_join"]
    /\ UNCHANGED <<cfgVars, regVars, tempThread, forkFails, statusVars,
                   osVars, lpid, tmp, callVars, cret, cpoll, cbVars, crashed,
                   cseen>>

DtorStopMonitoringJoin ==
    /\ ~crashed
    /\ pc[Caller] = "dt_join"
    /\ pc[csvc] \in {"none", "fin"}
    /\ pc' = [pc EXCEPT ![Caller] = "dt_state", ![csvc] = "none"]
    /\ UNCHANGED <<cfgVars, regVars, tempThread, forkFails, statusVars,
                   monFlag, osVars, lpid, tmp, callVars, cret, cpoll, cbVars,
                   crashed, cseen>>

\* ... then stop() if the state is Running or Starting
DtorStop ==
    /\ ~crashed
    /\ pc[Caller] = "dt_state"
    /\ IF AlreadyUp(state[csvc])
       THEN cop' = "~Service" /\ pc' = [pc EXCEPT ![Caller] = "sp_check"]
       ELSE cop' = cop /\ pc' = [pc EXCEPT ![Caller] = "un_erase"]
    /\ UNCHANGED <<cfgVars, regVars, tempThread, forkFails, statusVars,
                   monFlag, osVars, lpid, tmp, csvc, calls, cret, cpoll,
                   cbVars, crashed, cseen>>

\* the record is gone; unregisterService returns saveConfig()
Erase ==
    /\ ~crashed
    /\ pc[Caller] = "un_erase"
    /\ registered' = registered \ {csvc}
    /\ state' = [state EXCEPT ![csvc] = "Unknown"]
    /\ pid' = [pid EXCEPT ![csvc] = NoPid]
    /\ rc' = [rc EXCEPT ![csvc] = 0]
    /\ lastError' = [lastError EXCEPT ![csvc] = ""]
    /\ monFlag' = [monFlag EXCEPT ![csvc] = FALSE]
    /\ cop' = "unregister"
    /\ \E saved \in SaveResults : cret' = Result(saved)
    /\ pc' = [pc EXCEPT ![Caller] = "idle"]
    /\ UNCHANGED <<cfgVars, queue, allOk, issued, got, carg, tempThread,
                   forkFails, osVars, lpid, tmp, csvc, calls, cpoll, cbVars,
                   crashed, cseen>>

UnregisterStep ==
    \/ DtorStopMonitoringFlag
    \/ DtorStopMonitoringJoin
    \/ DtorStop
    \/ Erase

\* ------------------------------------- startAllServices / stopAllServices
\* the sequences that list every name of ns once: the orders in which an
\* unordered_map can be iterated
Orderings(ns) ==
    {q \in [1..Cardinality(ns) -> ns] : \A n \in ns : \E i \in DOMAIN q : q[i] = n}

\* a comparator that orders by descending priority value
PriorityGreater(a, b) == priority[a] > priority[b]

\* the comparator of the sort
PriorityLess(a, b) == priority[a] < priority[b]

\* q is ordered by the comparator
Sorted(q) == \A i, j \in DOMAIN q : i < j => ~PriorityLess(q[j], q[i])

\* the results std::sort may leave for the names of q: it is not stable, so
\* names of equal priority come in any order
SortByPriority(q) == {r \in Orderings({q[i] : i \in DOMAIN q}) : Sorted(r)}

\* a loop that keeps the result of its last call only
FoldedLast == cret # "false"

\* one call of a loop has returned: fold it into the result
Folded == allOk /\ cret # "false"

Issued == IF cret = "none" THEN issued
          ELSE Append(issued, [name |-> csvc, ret |-> cret])

\* a call that goes through the services ns counts as one call for each
SweepCost(ns) == IF ns = {} THEN 1 ELSE Cardinality(ns)

startAllServices ==
    /\ ~crashed
    /\ pc[Caller] = "idle"
    /\ calls + SweepCost({s \in registered : autoStart[s]}) <= MaxCalls
    /\ calls' = calls + SweepCost({s \in registered : autoStart[s]})
    /\ cop' = "startAll"
    /\ cret' = "none"
    /\ cseen' = "none"
    /\ \E names \in Orderings(registered) : queue' \in SortByPriority(names)
    /\ allOk' = TRUE
    /\ issued' = <<>>
    /\ pc' = [pc EXCEPT ![Caller] = "sa_next"]
    /\ UNCHANGED <<cfgVars, statusVars, monFlag, osVars, lpid, tmp, csvc,
                   cpoll, cbVars, crashed, registered, got, carg,
                   tempThread, forkFails>>

\* for (name : service_names) if (auto_start) if (!startService(name)) ...;
\* return all_started
StartAllLoop ==
    /\ ~crashed
    /\ pc[Caller] = "sa_next"
    /\ allOk' = Folded
    /\ issued' = Issued
    /\ cseen' = "none"
    /\ IF queue = <<>>
       THEN /\ cret' = Result(Folded)
            /\ pc' = [pc EXCEPT ![Caller] = "idle"]
            /\ UNCHANGED <<queue, csvc>>
       ELSE /\ queue' = Tail(queue)
            /\ cret' = "none"
            /\ IF autoStart[Head(queue)]
               THEN /\ csvc' = Head(queue)
                    /\ pc' = [pc EXCEPT ![Caller] = "st_check"]
               ELSE UNCHANGED <<csvc, pc>>
    /\ UNCHANGED <<cfgVars, statusVars, monFlag, osVars, lpid, tmp, cop,
                   calls, cpoll, cbVars, crashed, registered, got, carg,
                   tempThread, forkFails>>

stopAllServices ==
    /\ ~crashed
    /\ pc[Caller] = "idle"
    /\ calls + SweepCost(registered) <= MaxCalls
    /\ calls' = calls + SweepCost(registered)
    /\ cop' = "stopAll"
    /\ cret' = "none"
    /\ cseen' = "none"
    /\ queue' \in Orderings(registered)
    /\ allOk' = TRUE
    /\ issued' = <<>>
    /\ pc' = [pc EXCEPT ![Caller] = "so_next"]
    /\ UNCHANGED <<cfgVars, statusVars, monFlag, osVars, lpid, tmp, csvc,
                   cpoll, cbVars, crashed, registered, got, carg,
                   tempThread, forkFails>>

\* for (pair : services_) if (!pair.second->stop()) ...; return all_stopped
StopAllLoop ==
    /\ ~crashed
    /\ pc[Caller] = "so_next"
    /\ allOk' = Folded
    /\ issued' = Issued
    /\ IF queue = <<>>
       THEN /\ cret' = Result(Folded)
            /\ pc' = [pc EXCEPT ![Caller] = "idle"]
            /\ UNCHANGED <<queue, csvc>>
       ELSE /\ queue' = Tail(queue)
            /\ cret' = "none"
            /\ csvc' = Head(queue)
            /\ pc' = [pc EXCEPT ![Caller] = "sp_check"]
    /\ UNCHANGED <<cfgVars, statusVars, monFlag, osVars, lpid, tmp, cop,
                   calls, cpoll, cbVars, crashed, registered, got, carg,
                   tempThread, forkFails, cseen>>

\* the mutating calls of the manager interface
MutatingOps == {"start", "stop", "restart", "unregister", "setConfig",
                "enable", "disable"}

\* ---------------------------------------------------------- specification
\* the registry holding a fresh record (Service::Service) for the names reg
InitWith(reg, prio) ==
    /\ variant \in Variants
    /\ \E m \in 0..MaxAttemptsCfg : maxAttempts = [s \in Services |-> m]
    /\ state = [s \in Services |-> IF s \in reg THEN Constructed ELSE "Unknown"]
    /\ pid = [s \in Services |-> NoPid]
    /\ rc = [s \in Services |-> 0]
    /\ lastError = [s \in Services |-> ""]
    /\ monFlag = [s \in Services |-> FALSE]
    /\ proc = [p \in Pids |-> "unborn"]
    /\ owner = [p \in Pids |-> "none"]
    /\ spawner = [p \in Pids |-> "none"]
    /\ pc = [t \in Threads |-> IF t = Caller THEN "idle" ELSE "none"]
    /\ lpid = [t \in Threads |-> NoPid]
    /\ tmp = [t \in Threads |-> 0]
    /\ cop = "none"
    /\ csvc = "network"
    /\ cret = "none"
    /\ cpoll = 0
    /\ errCalls = [s \in Services |-> 0]
    /\ statusCalls = [s \in Services |-> 0]
    /\ crashed = FALSE
    /\ cseen = "none"
    /\ calls = 0
    /\ autoStart = [s \in Services |-> TRUE]
    /\ priority = prio
    /\ registered = reg
    /\ queue = <<>>
    /\ allOk = TRUE
    /\ issued = <<>>
    /\ got = Placeholder
    /\ tempThread = [s \in Services |-> FALSE]
    /\ forkFails = [s \in Services |-> 0]
    /\ execPath = DefaultExecutable
    /\ cfgName = [s \in Services |-> s]
    /\ image = [p \in Pids |-> "none"]
    /\ carg = [priority |-> ServicePriority.High, auto_start |-> TRUE,
               max_restart_attempts |-> 3,
               executable_path |-> "/usr/sbin/storaged", name |-> "storage"]

\* every service registered
Init == InitWith(Services, DefaultPriority)

Next ==
    \/ \E s \in Services : startService(s)
    \/ \E s \in Services : stopService(s)
    \/ \E s \in Services : restartService(s)
    \/ CallerStep
    \/ \E s \in Services : MonitorStep(s)
    \/ \E p \in Pids : ProcExit(p)

Spec == Init /\ [][Next]_vars


\* the scheduler runs every thread that can take a step; the control plane
\* is not obliged to make further calls and a process need not exit
Fairness ==
    /\ WF_vars(CallerStep)
    /\ \A s \in Services : WF_vars(MonitorStep(s))

FairSpec == Spec /\ Fairness

\* the manager after initialize(): createDefaultServices stops at the first
\* registerService that returns false, so a failing saveConfig() leaves the
\* first service only
MgrInit == \E reg \in {{"network"}, Services} : InitWith(reg, DefaultPriority)

ManagerStep == UnregisterStep \/ StartAllLoop \/ StopAllLoop

MgrNext ==
    \/ Next
    \/ ManagerStep
    \/ startAllServices
    \/ stopAllServices
    \/ \E s \in Services : unregisterService(s)
    \/ \E s \in Services, c \in Configs : registerService(s, Named(c, s))
    \/ \E s \in Services, c \in Configs : setServiceConfig(s, Named(c, s))
    \/ \E s \in Services : enableService(s)
    \/ \E s \in Services : disableService(s)
    \/ \E s \in Services : getServiceStatus(s)
    \/ \E s \in Services, op \in MutatingOps : NotRegistered(op, s)

MgrSpec == MgrInit /\ [][MgrNext]_vars

\* the registry calls, next to startService and unregisterService
RegNext ==
    \/ \E s \in Services : startService(s)
    \/ \E s \in Services : unregisterService(s)
    \/ UnregisterStep
    \/ CallerStep
    \/ \E s \in Services : MonitorStep(s)
    \/ \E p \in Pids : ProcExit(p)
    \/ \E s \in Services, c \in Configs : registerService(s, Named(c, s))
    \/ \E s \in Services : getServiceStatus(s)
    \/ \E s \in Services, op \in MutatingOps : NotRegistered(op, s)

\* the registry when the saveConfig() of initialize() has failed
RegInit == InitWith({"network"}, DefaultPriority)

RegSpec == RegInit /\ [][RegNext]_vars

\* reloadConfig, next to startService and unregisterService
ReloadNext ==
    \/ reloadConfig
    \/ \E s \in Services : startService(s)
    \/ \E s \in Services : unregisterService(s)
    \/ UnregisterStep
    \/ CallerStep
    \/ \E s \in Services : MonitorStep(s)
    \/ \E p \in Pids : ProcExit(p)

ReloadSpec == MgrInit /\ [][ReloadNext]_vars

\* the five calls that change the registry or a stored configuration, with
\* setServiceConfig given configurations of any name
NameNext ==
    \/ \E s \in Services, c \in Configs : registerService(s, Named(c, s))
    \/ \E s \in Services : unregisterService(s)
    \/ UnregisterStep
    \/ CallerStep
    \/ \E s, n \in Services, c \in Configs : setServiceConfig(s, Named(c, n))
    \/ \E s \in Services : enableService(s)
    \/ \E s \in Services : disableService(s)
    \/ \E s \in Services : startService(s)
    \/ \E s \in Services : MonitorStep(s)
    \/ \E p \in Pids : ProcExit(p)

NameSpec == RegInit /\ [][NameNext]_vars

\* isServiceRunning next to startService and the monitors
ProbeNext ==
    \/ \E s \in Services : isServiceRunning(s)
    \/ \E s \in Services : startService(s)
    \/ StartStep(Caller)
    \/ \E s \in Services : MonitorStep(s)
    \/ \E p \in Pids : ProcExit(p)

ProbeSpec == RegInit /\ [][ProbeNext]_vars

\* setServiceConfig next to startService and the monitors
CfgNext ==
    \/ \E s \in Services, c \in Configs : setServiceConfig(s, Named(c, s))
    \/ \E s \in Services : startService(s)
    \/ StartStep(Caller)
    \/ \E s \in Services : MonitorStep(s)
    \/ \E p \in Pids : ProcExit(p)

CfgSpec == Init /\ [][CfgNext]_vars

\* enableService and disableService next to startService and the monitors
ToggleNext ==
    \/ \E s \in Services : enableService(s)
    \/ \E s \in Services : disableService(s)
    \/ \E s \in Services : startService(s)
    \/ StartStep(Caller)
    \/ \E s \in Services : MonitorStep(s)
    \/ \E p \in Pids : ProcExit(p)

ToggleSpec == Init /\ [][ToggleNext]_vars

\* the priorities the services may have been given: the defaults, the
\* reverse order, and a tie
PriorityChoices ==
    {[DefaultPriority EXCEPT !["network"] = p] :
         p \in {ServicePriority.Critical, ServicePriority.High,
                ServicePriority.Normal}}

SweepInit == \E prio \in PriorityChoices : InitWith(Services, prio)

\* startAllServices on a registry whose services may have been disabled
SweepNext ==
    \/ startAllServices
    \/ StartAllLoop
    \/ StartStep(Caller)
    \/ \E s \in Services : disableService(s)
    \/ \E s \in Services : MonitorStep(s)
    \/ \E p \in Pids : ProcExit(p)

SweepSpec == SweepInit /\ [][SweepNext]_vars

\* ------------------------------------------------------------- vocabulary
StartPcs == {"st_check", "st_begin", "st_fork", "st_rcread", "st_rcwrite",
             "st_live", "st_mon"}

StopPcs == {"sp_check", "sp_pid", "sp_term", "sp_wait", "sp_poll", "sp_kill",
            "sp_wait2", "sp_fin", "sp_monflag", "sp_join"}

\* the monitoring thread of s is in its polling loop
MonitorPolling(s) == pc[s] \in {"m_loop", "m_pid", "m_kill", "m_fail"}

\* a monitoring thread of s exists and has not ended
MonitorRunning(s) == pc[s] \notin {"none", "fin"}

\* the running child processes forked for s
Children(s) == {p \in Pids : owner[p] = s /\ proc[p] = "alive"}

\* some thread is inside start() of s
StartInProgress(s) == \E t \in Threads : Target(t) = s /\ pc[t] \in StartPcs

\* every declared dependency is a registered service in state Running
DepsRunning(s) == \A d \in Dependencies[s] : d \in Services /\ state[d] = "Running"

\* the caller's stop() returns in this step
StopCompletes ==
    /\ cop = "stop"
    /\ pc[Caller] \in StopPcs
    /\ pc'[Caller] = "idle"

\* the monitoring threads of s that exist and run: the one held by
\* monitoring_thread_ and one started by a std::thread temporary
MonitorThreads(s) ==
    (IF MonitorRunning(s) THEN 1 ELSE 0) + (IF tempThread[s] THEN 1 ELSE 0)

\* the fork() calls for s that succeeded
Forks(s) == Cardinality({p \in Pids : owner[p] = s})

\* a start() of s has forked and has not yet written restart_count
CountPending(s) ==
    \E t \in Threads : Target(t) = s /\ pc[t] \in {"st_rcread", "st_rcwrite"}

\* the caller makes the registry call op on the name s in this step
RegistryCalled(op, s) ==
    /\ pc[Caller] = "idle"
    /\ calls' = calls + 1
    /\ cop' = op
    /\ csvc' = s

\* the record of s and its configuration are left as they are
RecordUnchanged(s) ==
    /\ state'[s] = state[s]
    /\ pid'[s] = pid[s]
    /\ rc'[s] = rc[s]
    /\ monFlag'[s] = monFlag[s]
    /\ pc'[s] = pc[s]
    /\ maxAttempts'[s] = maxAttempts[s]
    /\ autoStart'[s] = autoStart[s]
    /\ priority'[s] = priority[s]

\* the names the running (or last) sweep has called start() / stop() on
IssuedNames == {issued[i].name : i \in DOMAIN issued}

\* Service::getConfig
getConfig(s) ==
    [priority |-> priority[s], auto_start |-> autoStart[s],
     max_restart_attempts |-> maxAttempts[s], executable_path |-> execPath[s],
     name |-> cfgName[s]]

\* a process is forked in this step
Forked(p) == proc[p] = "unborn" /\ proc'[p] = "alive"

\* the caller's stop() returns false in this step: the returns inside the
\* failure branches of variant A
StopReturnsFalse ==
    /\ pc[Caller] \in {"sp_term", "sp_wait", "sp_kill"}
    /\ pc'[Caller] \notin StopPcs

\* the caller's stop() returns true in this step: the early returns, and the
\* return after stopMonitoring()
StopReturnsTrue ==
    /\ pc[Caller] \in {"sp_check", "sp_pid", "sp_join"}
    /\ pc'[Caller] \notin StopPcs

\* the caller's start() returns true in this step: the entry check, and the
\* return after startMonitoring()
StartReturnsTrue ==
    /\ pc[Caller] \in {"st_check", "st_mon"}
    /\ pc'[Caller] \notin StartPcs

\* the caller's start() returns false in this step
StartReturnsFalse ==
    /\ pc[Caller] \in {"st_begin", "st_fork", "st_live"}
    /\ pc'[Caller] \notin StartPcs

\* ------------------------------------------------------------------ claims

\* C1: every completed stop() leaves the service Stopped with pid = -1,
\* whatever state it was called in and whatever kill and waitpid returned.
C1_StopEndsStopped ==
    [][StopCompletes => (state'[csvc] = "Stopped" /\ pid'[csvc] = NoPid)]_vars

\* C2: once stop() has returned (here: returned true), and until the next
\* call, the service is Stopped, it has no running monitor and no running
\* child process, however the call interleaved with the monitor.
C2_StopWinsRace ==
    (pc[Caller] = "idle" /\ cop = "stop" /\ cret = "true")
        => /\ state[csvc] = "Stopped"
           /\ ~MonitorRunning(csvc)
           /\ Children(csvc) = {}

\* C3: at no time do two spawned child processes exist for the same
\* service.
C3_OneChildPerService ==
    \A s \in Services : Cardinality(Children(s)) <= 1

\* C4: a service that is Stopped or Failed has pid = -1: every transition
\* into Failed or Stopped resets the pid.
C4_PidClearedWhenDown ==
    \A s \in Services : state[s] \in {"Stopped", "Failed"} => pid[s] = NoPid

\* C5: start() of a Stopped service with a dependency that is not Running
\* returns false at the dependency check, leaving the state Stopped, the
\* restart count and the process table as they were.
C5_StartRefusedOnUnreadyDeps ==
    [][(/\ cop = "start"
        /\ pc[Caller] = "st_begin"
        /\ pc'[Caller] # "st_begin"
        /\ state[csvc] = "Stopped"
        /\ ~DepsRunning(csvc))
       => (/\ pc'[Caller] = "idle"
           /\ cret' = "false"
           /\ state'[csvc] = "Stopped"
           /\ rc' = rc
           /\ proc' = proc)]_vars

\* C6: no service enters Starting, by whatever path, at a moment when one of
\* its dependencies is not a registered service in state Running.
C6_NoStartingWithoutDeps ==
    [][\A s \in Services :
           (state[s] # "Starting" /\ state'[s] = "Starting") => DepsRunning(s)]_vars

\* C7: start() of a service that is Running or Starting returns true and
\* changes nothing: state, pid, restart count, processes, monitor and
\* callbacks stay as they were.
C7_StartIdempotent ==
    [][(/\ pc[Caller] = "st_check"
        /\ pc'[Caller] # "st_check"
        /\ state[csvc] \in {"Running", "Starting"})
       => (/\ pc'[Caller] = "idle"
           /\ cret' = "true"
           /\ UNCHANGED <<state, pid, rc, lastError, monFlag, proc, owner,
                          errCalls, statusCalls, crashed>>
           /\ \A s \in Services : pc'[s] = pc[s])]_vars

\* the caller's start() found the service already up and has returned true
C7_Witness ==
    /\ pc[Caller] = "idle"
    /\ cop = "start"
    /\ cseen \in {"Running", "Starting"}
    /\ cret = "true"
    /\ rc[csvc] = 1

\* C8: an exit of the process of a Running service whose restart count has
\* reached max_restart_attempts, the process being one that an automatic
\* restart started, is followed by the service leaving Running (for Failed).
C8_ExhaustedExitFails ==
    \A s \in Services :
        (/\ state[s] = "Running"
         /\ pid[s] \in Pids
         /\ proc[pid[s]] = "gone"
         /\ spawner[pid[s]] = "monitor"
         /\ rc[s] >= maxAttempts[s])
            ~> (state[s] # "Running" \/ crashed)

\* C9: whenever a service is Running and no start() of it is still under
\* way, a monitor is polling it.
C9_RunningIsMonitored ==
    \A s \in Services :
        (state[s] = "Running" /\ ~StartInProgress(s) /\ ~crashed)
            => MonitorPolling(s)

\* C10: the monitor never forks a process for a service whose restart count
\* has reached max_restart_attempts.
C10_NoAutoStartWhenExhausted ==
    [][\A s \in Services :
           (pc[s] = "st_fork" /\ pc'[s] = "st_rcread")
               => rc[s] < maxAttempts[s]]_vars

\* C11: at every moment at most one monitoring thread of a service exists
\* and runs; a startMonitoring() made while one runs starts no second one.
C11_OneMonitorThread ==
    \A s \in Services : MonitorThreads(s) <= 1

\* C12: restart_count equals the number of spawn attempts made for the
\* service, each adding exactly 1 (stated here for the services none of
\* whose forks failed, once every increment under way has been written).
C12_CountsEverySpawn ==
    \A s \in Services :
        (forkFails[s] = 0 /\ ~CountPending(s)) => rc[s] = Forks(s)

\* C13: registerService with a name that is already registered returns false
\* and leaves the registry unchanged: the set of names, and the existing
\* record's configuration, state, pid and restart count.
C13_DuplicateRegisterRefused ==
    [][\A s \in Services :
           (RegistryCalled("register", s) /\ s \in registered)
               => (/\ cret' = "false"
                   /\ registered' = registered
                   /\ \A r \in Services : RecordUnchanged(r)
                   /\ proc' = proc)]_vars

\* a registerService on the name of a record that has been started returned
\* false, and the record still has its restart count
C13_Witness ==
    /\ pc[Caller] = "idle"
    /\ cop = "register"
    /\ csvc \in registered
    /\ cret = "false"
    /\ rc[csvc] = 1

\* C14: registerService of a name right after its unregisterService (which
\* erased the record and returned true) succeeds and yields a fresh record:
\* Stopped, pid -1, restart count 0.
C14_ReRegisterSucceedsFresh ==
    [][\A s \in Services :
           (/\ RegistryCalled("register", s)
            /\ cop = "unregister" /\ csvc = s /\ cret = "true"
            /\ s \notin registered)
               => (/\ cret' = "true"
                   /\ s \in registered'
                   /\ state'[s] = "Stopped"
                   /\ pid'[s] = NoPid
                   /\ rc'[s] = 0)]_vars

\* C15: for a name that is not registered, getServiceStatus returns the
\* placeholder (Unknown, pid -1) and every mutating call returns false and
\* leaves the registry, every record and every process as they were.
C15_UnknownNameRefused ==
    [][\A s \in Services :
           (/\ pc[Caller] = "idle"
            /\ calls' = calls + 1
            /\ csvc' = s
            /\ s \notin registered)
               => /\ cop' = "getStatus"
                        => (got'.state = "Unknown" /\ got'.pid = NoPid)
                  /\ cop' \in MutatingOps
                        => (/\ cret' = "false"
                            /\ registered' = registered
                            /\ \A r \in Services : RecordUnchanged(r)
                            /\ proc' = proc)]_vars

\* enableService on a name that is not registered has returned false, next
\* to a registered service that has been started
C15_Witness ==
    /\ pc[Caller] = "idle"
    /\ cop = "enable"
    /\ csvc \notin registered
    /\ cret = "false"
    /\ \E r \in registered : rc[r] = 1

\* C16: startAllServices issues its start() calls in non-decreasing priority
\* value order, whatever the iteration order of the name map.
C16_StartAllByPriority ==
    /\ \A i, j \in DOMAIN issued :
           i < j => priority[issued[i].name] <= priority[issued[j].name]
    /\ (cop = "startAll" /\ pc[Caller] \in StartPcs)
           => \A i \in DOMAIN issued : priority[issued[i].name] <= priority[csvc]

\* a startAllServices has started storage before network, network having the
\* larger priority value
C16_Witness ==
    /\ pc[Caller] = "idle"
    /\ cop = "startAll"
    /\ Len(issued) = 2
    /\ issued[1].name = "storage"
    /\ priority["storage"] < priority["network"]

\* C17: a completed startAllServices has called start() once on every
\* registered service whose auto_start is true and on no other, also after
\* one of them failed, and returns true exactly if every start() returned
\* true.
C17_StartAllCoversAutoStart ==
    (pc[Caller] = "idle" /\ cop = "startAll")
        => /\ IssuedNames = {s \in registered : autoStart[s]}
           /\ Len(issued) = Cardinality(IssuedNames)
           /\ cret = "true" <=> \A i \in DOMAIN issued : issued[i].ret = "true"

\* a startAllServices whose first start() failed has gone on to start the
\* second service, and has returned false
C17_Witness ==
    /\ pc[Caller] = "idle"
    /\ cop = "startAll"
    /\ Len(issued) = 2
    /\ issued[1].ret = "false"
    /\ issued[2].ret = "true"
    /\ cret = "false"

\* C18: a stopAllServices that returns has called stop() on every registered
\* service, returns true exactly if every stop() returned true, and when it
\* returns true every registered service is Stopped.
C18_StopAllStopsAll ==
    [][(cop = "stopAll" /\ pc[Caller] = "so_next" /\ pc'[Caller] = "idle")
       => (/\ {issued'[i].name : i \in DOMAIN issued'} = registered
           /\ cret' = "true" <=> \A i \in DOMAIN issued' : issued'[i].ret = "true"
           /\ cret' = "true" => \A s \in registered : state'[s] = "Stopped")]_vars

\* C19: every change of a service's state to a different value invokes the
\* status-change callback exactly once for that service; steps that leave
\* the state alone invoke it zero times.
C19_StatusCallbackOnChange ==
    [][\A s \in Services :
           statusCalls'[s] = statusCalls[s]
                             + (IF state'[s] # state[s] THEN 1 ELSE 0)]_vars

\* C20: every failure that ends an operation on a service (the step that
\* puts the service into Failed) invokes the error callback for it.
C20_ErrorCallbackOnFailure ==
    [][\A s \in Services :
           (state[s] # "Failed" /\ state'[s] = "Failed")
               => errCalls'[s] = errCalls[s] + 1]_vars

\* C21: restart() returns true exactly if its stop() returned true and the
\* start() that follows returned true; when stop() fails, restart() returns
\* false at once: start() is not entered and no process is spawned.
C21_RestartIsStopThenStart ==
    [][cop = "restart"
       => /\ StopReturnsFalse => (/\ pc'[Caller] = "idle"
                                  /\ cret' = "false"
                                  /\ Unborn' = Unborn)
          /\ StopReturnsTrue => (pc'[Caller] = "st_check" /\ cret' = cret)
          /\ StartReturnsTrue => (pc'[Caller] = "idle" /\ cret' = "true")
          /\ StartReturnsFalse => (pc'[Caller] = "idle" /\ cret' = "false")]_vars

\* a restart() whose stop() could not signal the process has returned false,
\* and nothing was spawned after the first start
C21_Witness ==
    /\ pc[Caller] = "idle"
    /\ cop = "restart"
    /\ cret = "false"
    /\ lastError[csvc] = "term"
    /\ Forks(csvc) = 1

\* C22: setServiceConfig on a registered service replaces its configuration
\* with the one given and leaves its status alone: state, pid, restart_count,
\* last error, the processes and the monitor; no other step changes a
\* configuration, and every spawn runs the executable of the configuration in
\* force, so the next spawn uses the new one.
C22_SetConfigReplacesConfigOnly ==
    [][\A s \in Services :
          /\ (cop' = "setConfig" /\ calls' = calls + 1 /\ csvc' = s)
             => /\ getConfig(s)' = carg'
                /\ state'[s] = state[s]
                /\ pid'[s] = pid[s]
                /\ rc'[s] = rc[s]
                /\ lastError'[s] = lastError[s]
                /\ monFlag'[s] = monFlag[s]
                /\ pc'[s] = pc[s]
                /\ proc' = proc
          /\ getConfig(s)' # getConfig(s)
                => (cop' = "setConfig" /\ calls' = calls + 1 /\ csvc' = s)
          /\ \A p \in Pids :
                (Forked(p) /\ owner'[p] = s)
                   => image'[p] = getConfig(s).executable_path]_vars

\* a service was given a new configuration while it was Running, its child
\* exited, and its monitor has spawned the new executable
C22_Witness ==
    \E p \in Pids :
        /\ proc[p] = "alive"
        /\ owner[p] = "network"
        /\ spawner[p] = "monitor"
        /\ image[p] = "/usr/bin/desktop"
        /\ rc["network"] = 2

\* restart attempts of s are used up while it is Failed
Exhausted(s) == state[s] = "Failed" /\ rc[s] >= maxAttempts[s]

\* the monitor thread of s has ended (or never ran)
MonitorTerminated(s) == pc[s] \in {"none", "fin"}

\* the caller is inside a call on s
ExplicitCall(s) == pc[Caller] # "idle" /\ csvc = s

\* C23: once a service is Failed with restart_count >= max_restart_attempts
\* and no explicit call on it is under way, its monitor has terminated and its
\* state stays Failed until the caller calls it again: no step of a monitor
\* or of a process changes the state.
C23_ExhaustedStaysFailed ==
    [][\A s \in Services :
          (Exhausted(s) /\ ~ExplicitCall(s))
             => /\ MonitorTerminated(s)
                /\ state'[s] = "Failed"]_vars

\* the monitoring thread of a takes this step: a step of its loop or of the
\* start() it runs, the one that ends in std::terminate included
MonitorStepOf(a) ==
    /\ MonitorRunning(a)
    /\ pc'[Caller] = pc[Caller]
    /\ \/ pc'[a] # pc[a]
       \/ pc[a] = "st_mon" /\ pc[Caller] # "st_mon" /\ crashed' # crashed

\* C24: a step of the monitor of service A leaves every other registered
\* service B as it was: its state, pid, restart_count, last error, monitor
\* and configuration, and the process that holds them keeps running.
C24_MonitorLeavesOthersAlone ==
    [][\A a \in Services, b \in registered :
          (a # b /\ MonitorStepOf(a))
             => /\ RecordUnchanged(b)
                /\ lastError'[b] = lastError[b]
                /\ execPath'[b] = execPath[b]
                /\ crashed' = crashed]_vars

\* unregisterService returns in this step, the record erased
UnregisterReturns == pc[Caller] = "un_erase" /\ pc'[Caller] = "idle"

\* C25: when unregisterService(name) returns for a registered service, the
\* name is no longer registered, no child process of the service is alive and
\* no monitor thread of the service is running.
C25_UnregisterLeavesNothing ==
    [][UnregisterReturns
          => /\ csvc \notin registered'
             /\ Children(csvc)' = {}
             /\ MonitorThreads(csvc)' = 0]_vars

\* C26: no registered service record has state Unknown; a getServiceStatus
\* that returned Unknown was asked about a name that is not registered.
C26_UnknownOnlyForMissingNames ==
    /\ \A s \in registered : state[s] # "Unknown"
    /\ (cop = "getStatus" /\ got.state = "Unknown") => csvc \notin registered

\* a service was unregistered and getServiceStatus then reported it Unknown
C26_Witness ==
    /\ cop = "getStatus"
    /\ csvc = "network"
    /\ got.state = "Unknown"
    /\ calls = 2

\* the caller's stop() calls kill(status_.pid, SIGKILL) in this step
ForcefulKill == pc[Caller] = "sp_kill" /\ pc'[Caller] # "sp_kill"

\* the caller's stop() comes to its SIGKILL in this step
GraceEnds == pc[Caller] # "sp_kill" /\ pc'[Caller] = "sp_kill"

\* the caller's stop() begins to wait for the exit in this step
GraceBegins ==
    /\ pc[Caller] \notin {"sp_wait", "sp_poll"}
    /\ pc'[Caller] \in {"sp_wait", "sp_poll"}

\* C27: stop() sends the forceful kill only after the graceful signal was
\* sent and the wait for the exit is over, and only to a process that has
\* still not exited then: a process that exited while stop() waited is not
\* sent the forceful kill.
C27_ForcefulKillOnlyIfStillRunning ==
    [][/\ GraceBegins => (pc[Caller] = "sp_term" /\ KillOk(pid[csvc]))
       /\ GraceEnds => pc[Caller] \in {"sp_wait", "sp_poll"}
       /\ ForcefulKill => (pid[csvc] \in Pids /\ proc[pid[csvc]] = "alive")]_vars

\* the caller's stop() calls kill() with SIGTERM or SIGKILL in this step and
\* the call fails
SignalFails ==
    /\ pc[Caller] \in {"sp_term", "sp_kill"}
    /\ pc'[Caller] # pc[Caller]
    /\ ~KillOk(pid[csvc])

\* C28: when sending the graceful or the forceful signal fails, that stop()
\* returns false and leaves a non-empty last error.
C28_SignalFailureFailsStop ==
    [][SignalFails => /\ StopReturnsFalse
                      /\ cret' = "false"
                      /\ lastError'[csvc] # ""]_vars

\* the caller's start() makes its liveness check in this step, on a process
\* that has exited
LivenessCheckOfExited ==
    /\ pc[Caller] = "st_live"
    /\ pc'[Caller] # "st_live"
    /\ LivenessPid(Caller) \in Pids
    /\ proc[LivenessPid(Caller)] \in {"zombie", "gone"}

\* C29: the result of start() agrees with the state it leaves: when it
\* returns true the service is Running or Starting, and when it returns false
\* the service is Failed with a non-empty last error; a process that has
\* exited by the liveness check makes start() return false.
C29_StartResultAgreesWithState ==
    [][/\ StartReturnsTrue => state'[csvc] \in {"Running", "Starting"}
       /\ StartReturnsFalse => (state'[csvc] = "Failed" /\ lastError'[csvc] # "")
       /\ LivenessCheckOfExited => StartReturnsFalse]_vars

\* C30: when the monitor has found the process not alive it sets Failed,
\* records the unexpected-exit error and invokes the error callback, once, in
\* the step before its test of the restart count; the restart delay and the
\* automatic start() come only after that test, and invoke no callback.
C30_MarkedFailedBeforeRestart ==
    [][\A s \in Services :
          /\ (pc[s] = "m_fail" /\ pc'[s] # "m_fail")
                => /\ state'[s] = "Failed"
                   /\ lastError'[s] = "unexpected"
                   /\ errCalls'[s] = errCalls[s] + 1
                   /\ pc'[s] = "m_rc"
          /\ errCalls'[s] # errCalls[s] => pc[s] = "m_fail"
          /\ (pc[s] # "m_rc" /\ pc'[s] = "m_rc") => pc[s] = "m_fail"
          /\ (pc[s] \in {"m_loop", "m_pid", "m_kill", "m_fail", "m_rc"}
              /\ pc'[s] \in StartPcs) => pc[s] = "m_rc"]_vars

\* the monitor has marked one exit and is about to start the service again
C30_Witness ==
    /\ pc["network"] = "st_check"
    /\ state["network"] = "Failed"
    /\ lastError["network"] = "unexpected"
    /\ errCalls["network"] = 1
    /\ pc[Caller] = "idle"

\* C31: a stop() that finds the service Stopped returns true at once, sends
\* no signal and changes no field of the status; a stop() that finds another
\* state and no recorded pid sets Stopped, sends no signal and returns true.
C31_StopWithNothingToStop ==
    [][/\ (pc[Caller] = "sp_check" /\ pc'[Caller] # "sp_check"
           /\ state[csvc] = "Stopped")
             => /\ StopReturnsTrue
                /\ cop = "stop" => cret' = "true"
                /\ UNCHANGED <<state, pid, rc, lastError, proc>>
       /\ (pc[Caller] = "sp_pid" /\ pc'[Caller] # "sp_pid"
           /\ pid[csvc] = NoPid)
             => /\ StopReturnsTrue
                /\ cop = "stop" => cret' = "true"
                /\ state'[csvc] = "Stopped"
                /\ UNCHANGED <<pid, rc, lastError, proc>>]_vars

\* a service whose only fork failed, Failed with no pid, has been stopped
C31_Witness ==
    /\ pc[Caller] = "idle"
    /\ cop = "stop"
    /\ cret = "true"
    /\ state[csvc] = "Stopped"
    /\ forkFails[csvc] = 1
    /\ Forks(csvc) = 0

\* C32: every stop() the caller has entered eventually returns, when threads
\* are scheduled fairly (a manager that std::terminate has ended is left
\* aside).
C32_StopEventuallyReturns ==
    (pc[Caller] \in StopPcs) ~> (pc[Caller] \notin StopPcs \/ crashed)

\* the place of each name in the order of registration (createDefaultServices),
\* which is the order of the names too
RegistrationOrder == [s \in Services |-> IF s = "network" THEN 1 ELSE 2]

\* C33: among services of equal priority, startAllServices issues the
\* start() calls in registration/name order.
C33_TiesInRegistrationOrder ==
    cop = "startAll"
       => \A i, j \in DOMAIN issued :
             (i < j /\ priority[issued[i].name] = priority[issued[j].name])
                => RegistrationOrder[issued[i].name]
                      < RegistrationOrder[issued[j].name]

\* C34: enableService and disableService on a registered service set its
\* auto_start to true and to false, and leave its other configuration fields,
\* its status and every other service as they were.
C34_ToggleSetsAutoStartOnly ==
    [][\A s \in registered :
          (cop' \in {"enable", "disable"} /\ calls' = calls + 1 /\ csvc' = s)
             => /\ autoStart'[s] = (cop' = "enable")
                /\ maxAttempts'[s] = maxAttempts[s]
                /\ priority'[s] = priority[s]
                /\ execPath'[s] = execPath[s]
                /\ cfgName'[s] = cfgName[s]
                /\ UNCHANGED <<state, pid, rc, lastError, monFlag, proc>>
                /\ \A b \in Services : pc'[b] = pc[b]
                /\ \A b \in Services \ {s} : getConfig(b)' = getConfig(b)]_vars

\* a Running service has been disabled
C34_Witness ==
    /\ pc[Caller] = "idle"
    /\ cop = "disable"
    /\ ~autoStart[csvc]
    /\ state[csvc] = "Running"
    /\ MonitorRunning(csvc)

C36_FalseLeavesRegistry ==
    [][/\ (cop' = "register" /\ calls' = calls + 1 /\ cret' = "false")
             => registered' = registered
       /\ (UnregisterReturns /\ cret' = "false")
             => registered' = registered]_vars

\* C37: every registered service is stored under the name its
\* configuration carries: the key of the registry entry equals config_.name.
C37_KeyIsConfigName == \A s \in registered : cfgName[s] = s

\* C38: isServiceRunning(name) returns true exactly when name is registered
\* and the state of its service is Running or Starting; it returns false
\* for Stopped, Stopping, Failed and for a name that is not registered.
C38_RunningOrStarting ==
    [][\A s \in Services :
          (cop' = "isRunning" /\ calls' = calls + 1 /\ csvc' = s)
             => /\ cret' \in {"true", "false"}
                /\ cret' = "true" <=> (s \in registered
                                        /\ state[s] \in {"Running", "Starting"})
                /\ (s \notin registered
                     \/ state[s] \in {"Stopped", "Stopping", "Failed"})
                      => cret' = "false"]_vars

\* isServiceRunning has returned true for a service that the monitor is
\* starting again
C38_Witness ==
    /\ pc[Caller] = "idle"
    /\ cop = "isRunning"
    /\ cret = "true"
    /\ csvc \in registered
    /\ state[csvc] = "Starting"
    /\ pc[csvc] \in StartPcs

\* no start(), stop() or restart() of the caller and no restart of the
\* monitor is under way on s
Quiescent(s) == ~ExplicitCall(s) /\ pc[s] \notin StartPcs

\* C39: while no start(), stop() or restart() call and no monitor-driven
\* restart is in progress for a service, its state is Stopped, Running or
\* Failed; a start() that completes leaves Running or Failed and a stop()
\* that completes leaves Stopped or Failed.
C39_SettledStates ==
    [][/\ \A s \in registered' :
             (Quiescent(s)' /\ ~crashed')
                => state'[s] \in {"Stopped", "Running", "Failed"}
       /\ (StartReturnsTrue \/ StartReturnsFalse)
             => state'[csvc] \in {"Running", "Failed"}
       /\ (StopReturnsTrue \/ StopReturnsFalse)
             => state'[csvc] \in {"Stopped", "Failed"}]_vars

\* C40: monitoring_thread_running_ of a service is true exactly while a
\* monitoring thread of it is running its loop (a stopMonitoring() that has
\* cleared the flag and waits in join() apart); after the loop has ended on
\* its own the flag is false.
C40_FlagMeansMonitor ==
    \A s \in registered :
       ~crashed
          => /\ monFlag[s] => MonitorRunning(s)
             /\ (MonitorPolling(s) /\ pc[Caller] \notin {"sp_join", "dt_join"})
                   => monFlag[s]

====
